---- MODULE Spec2Model ----
(***************************************************************************)
(* Modbus RTU slave responder (Modbus-tools/mbs.c): start-up, the main     *)
(* receive / filter / dispatch / reply loop and the register map.          *)
(*                                                                         *)
(* A received frame is the byte sequence that modbus_receive leaves in     *)
(* query[] (slave, function, addr hi, addr lo, value hi, value lo); the    *)
(* CRC is the transport's business and only counts in the length rc.  A    *)
(* reply is the byte sequence handed to the transport, again without CRC.  *)
(* modbus_mapping_new, modbus_reply and modbus_reply_exception are the     *)
(* libmodbus (3.1.x) functions the program links against; they are         *)
(* modelled by what they do with the arguments main passes them.           *)
(*                                                                         *)
(* The one-shot master tools (mbm.c, thconf.c and the relay configuration  *)
(* tool in mbs.c) are modelled further down, under SpecTools; they share   *)
(* pc, rc, tx, log and exit_status with the responder.                     *)
(***************************************************************************)
EXTENDS Integers, Sequences, FiniteSets, TLC

VARIABLES
    pc,              \* position of main
    own_addr,        \* atoi(argv[2])
    reg_map,         \* uint16_t reg_map[MAX_REG]
    query,           \* uint8_t query[]: the frame of this iteration
    rc,              \* the loop's rc: modbus_receive / modbus_reply result
    req,             \* slave_addr, operation, reg_addr, reg_val of this iteration
    exception_code,  \* uint16_t exception_code
    mb_mapping,      \* modbus_mapping_t *mb_mapping (NULL when none is live)
    tx,              \* frames handed to the transport in this iteration (tools: so far)
    log,             \* lines logged in this iteration (tools: printed so far)
    exit_status,     \* << >>, or <<return value of main>> once pc = "exit"
    touched,         \* array elements the switch of this iteration accessed
    last_write,      \* history: per address, the value of the latest addressed
                     \* in-range write frame seen on the wire (0 if none)
    start_map,       \* history: reg_map when this iteration's frame arrived
    prev,            \* history: frame, reply and start_map of the iteration before
    prog,            \* the program that runs: "mbs", "mbm", "thconf" or "relconf"
    argv,            \* its command line, each parameter as atoi reads it
    answer           \* what the device did with the last request of a master tool

history == <<start_map, prev>>

master == <<prog, argv, answer>>

vars == <<pc, own_addr, reg_map, query, rc, req, exception_code, mb_mapping,
          tx, log, exit_status, touched, last_write, start_map, prev,
          prog, argv, answer>>

(***************************************************************************)
(* Program constants                                                       *)
(***************************************************************************)
MAX_REG == 32
cont == 1
header_length == 1
CHECKSUM_LENGTH == 2
MODBUS_MAX_READ_REGISTERS == 125
MODBUS_EXCEPTION_ILLEGAL_FUNCTION == 1
MODBUS_EXCEPTION_ILLEGAL_DATA_ADDRESS == 2
MODBUS_EXCEPTION_ILLEGAL_DATA_VALUE == 3
MODBUS_EXCEPTION_SLAVE_OR_SERVER_FAILURE == 4
MODBUS_EXCEPTION_MAX == 12

(***************************************************************************)
(* Bounds of the explored input space                                      *)
(***************************************************************************)
MaxCount == 2

OwnAddrs == {5, 261, -3}        \* argv[2]: a unicast address, two outside a byte
SlaveBytes == {5, 9}            \* first byte of a received frame
FuncBytes == {3, 4, 6, 7, 16}   \* function code byte
AddrBytes == {<<0, 30>>, <<0, 31>>, <<0, 32>>, <<1, 30>>}   \* 30, 31, 32, 286
ValBytes == {<<0, n>> : n \in 0 .. MaxCount} \cup {<<4, 210>>}  \* 0.., 1234

Frames ==
    { <<s, f, a[1], a[2], v[1], v[2]>> :
        s \in SlaveBytes, f \in FuncBytes, a \in AddrBytes, v \in ValBytes }

RegIndex == 0 .. (MAX_REG - 1)
NULL == [null |-> TRUE]
Running == << >>               \* exit_status while main has not returned
NoPrev == [query |-> << >>, tx |-> << >>, start_map |-> [i \in RegIndex |-> 0]]
NoAnswer == "none"             \* answer while no request of a master tool is out
NoReq == [slave_addr |-> 0, operation |-> 0, reg_addr |-> 0, reg_val |-> 0]

(***************************************************************************)
(* Register map handlers                                                   *)
(***************************************************************************)
\* Variant of read_reg: the value read is returned instead of 0.
read_reg_returns_value(map, reg_addr) ==
    [rc |-> map[reg_addr], reg_val |-> map[reg_addr]]

read_reg(map, reg_addr) ==
    [rc |-> 0, reg_val |-> map[reg_addr]]

\* Variant of write_reg: the value stored through an 8-bit temporary.
write_reg_low_byte(map, reg_addr, reg_val) ==
    [rc |-> 0, map |-> [map EXCEPT ![reg_addr] = reg_val % 256]]

write_reg(map, reg_addr, reg_val) ==
    [rc |-> 0, map |-> [map EXCEPT ![reg_addr] = reg_val]]

(***************************************************************************)
(* Request decoding: the modbus_request_t overlay at query[header_length-1]*)
(* (query is 1-based here, so the overlay starts at header_length).        *)
(***************************************************************************)
\* Variant of Decode: the two bytes of each 16-bit field in the other order.
Decode_swapped_bytes(q) ==
    [slave_addr |-> q[header_length],
     operation  |-> q[header_length + 1],
     reg_addr   |-> q[header_length + 3] * 256 + q[header_length + 2],
     reg_val    |-> (q[header_length + 5] * 256 + q[header_length + 4]) % 65536]

\* Variant of Decode: reg_addr taken from reg_addr_lo alone.
Decode_addr_lo_only(q) ==
    [slave_addr |-> q[header_length],
     operation  |-> q[header_length + 1],
     reg_addr   |-> q[header_length + 3],
     reg_val    |-> (q[header_length + 4] * 256 + q[header_length + 5]) % 65536]

Decode(q) ==
    [slave_addr |-> q[header_length],
     operation  |-> q[header_length + 1],
     reg_addr   |-> q[header_length + 2] * 256 + q[header_length + 3],
     reg_val    |-> (q[header_length + 4] * 256 + q[header_length + 5]) % 65536]

\* Variant of AddressMatches: own address compared as a byte.
AddressMatches_as_byte(slave_addr, own) == slave_addr = own % 256

AddressMatches(slave_addr, own) == slave_addr = own

(***************************************************************************)
(* libmodbus: modbus_mapping_new(0, 0, MAX_REG, 0)                          *)
(***************************************************************************)
modbus_mapping_new(nb_registers, nb_input_registers) ==
    [nb_registers        |-> nb_registers,
     nb_input_registers  |-> nb_input_registers,
     tab_registers       |-> [i \in 0 .. (nb_registers - 1) |-> 0],
     tab_input_registers |-> [i \in 0 .. (nb_input_registers - 1) |-> 0]]

(***************************************************************************)
(* The dispatch switch of main: from the decoded request, the register map *)
(* and the fresh response mapping to the exception code, the register map, *)
(* the response mapping and the local reg_val after the switch, and the    *)
(* elements of reg_map[] and tab_registers[] it accessed.  exception_code  *)
(* 0 stands for "not assigned": the switch only ever assigns a non-zero    *)
(* code.                                                                   *)
(***************************************************************************)
\* Variant of ReadCase: the bounds check lets reg_addr = MAX_REG through
\* (what lies behind the array reads as 0 here).
ReadCase_bound_inclusive(r, map, mapping) ==
    IF r.reg_addr <= MAX_REG
    THEN LET v == IF r.reg_addr \in DOMAIN map THEN map[r.reg_addr] ELSE 0 IN
         [exception_code |-> 0,
          reg_map |-> map,
          mb_mapping |-> IF r.reg_addr \in DOMAIN map
                         THEN [mapping EXCEPT !.tab_registers[r.reg_addr] = v]
                         ELSE mapping,
          reg_val |-> v,
          access |-> {<<"reg_map", r.reg_addr>>, <<"tab_registers", r.reg_addr>>}]
    ELSE [exception_code |-> MODBUS_EXCEPTION_ILLEGAL_DATA_ADDRESS,
          reg_map |-> map, mb_mapping |-> mapping, reg_val |-> r.reg_val,
          access |-> {}]

\* Variant of ReadCase: the register is cleared once it has been read.
ReadCase_clear_on_read(r, map, mapping) ==
    IF r.reg_addr < MAX_REG
    THEN LET h == read_reg(map, r.reg_addr) IN
         [exception_code |-> 0,
          reg_map |-> [map EXCEPT ![r.reg_addr] = 0],
          mb_mapping |-> [mapping EXCEPT !.tab_registers[r.reg_addr] = h.reg_val],
          reg_val |-> h.reg_val,
          access |-> {<<"reg_map", r.reg_addr>>, <<"tab_registers", r.reg_addr>>}]
    ELSE [exception_code |-> MODBUS_EXCEPTION_ILLEGAL_DATA_ADDRESS,
          reg_map |-> map, mb_mapping |-> mapping, reg_val |-> r.reg_val,
          access |-> {}]

ReadCase(r, map, mapping) ==
    IF r.reg_addr < MAX_REG
    THEN LET h == read_reg(map, r.reg_addr) IN
         IF h.rc # 0
         THEN [exception_code |-> MODBUS_EXCEPTION_SLAVE_OR_SERVER_FAILURE,
               reg_map |-> map, mb_mapping |-> mapping, reg_val |-> h.reg_val,
               access |-> {<<"reg_map", r.reg_addr>>}]
         ELSE [exception_code |-> 0,
               reg_map |-> map,
               mb_mapping |-> [mapping EXCEPT !.tab_registers[r.reg_addr] = h.reg_val],
               reg_val |-> h.reg_val,
               access |-> {<<"reg_map", r.reg_addr>>,
                           <<"tab_registers", r.reg_addr>>}]
    ELSE [exception_code |-> MODBUS_EXCEPTION_ILLEGAL_DATA_ADDRESS,
          reg_map |-> map, mb_mapping |-> mapping, reg_val |-> r.reg_val,
          access |-> {}]

\* Variant of WriteCase: the bounds check off by one (last register refused).
WriteCase_off_by_one(r, map, mapping) ==
    IF r.reg_addr < MAX_REG - 1
    THEN LET h == write_reg(map, r.reg_addr, r.reg_val) IN
         [exception_code |-> IF h.rc # 0
                             THEN MODBUS_EXCEPTION_SLAVE_OR_SERVER_FAILURE
                             ELSE 0,
          reg_map |-> h.map, mb_mapping |-> mapping, reg_val |-> r.reg_val,
          access |-> {<<"reg_map", r.reg_addr>>}]
    ELSE [exception_code |-> MODBUS_EXCEPTION_ILLEGAL_DATA_ADDRESS,
          reg_map |-> map, mb_mapping |-> mapping, reg_val |-> r.reg_val,
          access |-> {}]

WriteCase(r, map, mapping) ==
    IF r.reg_addr < MAX_REG
    THEN LET h == write_reg(map, r.reg_addr, r.reg_val) IN
         [exception_code |-> IF h.rc # 0
                             THEN MODBUS_EXCEPTION_SLAVE_OR_SERVER_FAILURE
                             ELSE 0,
          reg_map |-> h.map, mb_mapping |-> mapping, reg_val |-> r.reg_val,
          access |-> {<<"reg_map", r.reg_addr>>}]
    ELSE [exception_code |-> MODBUS_EXCEPTION_ILLEGAL_DATA_ADDRESS,
          reg_map |-> map, mb_mapping |-> mapping, reg_val |-> r.reg_val,
          access |-> {}]

DefaultCase(r, map, mapping) ==
    [exception_code |-> MODBUS_EXCEPTION_ILLEGAL_FUNCTION,
     reg_map |-> map, mb_mapping |-> mapping, reg_val |-> r.reg_val,
     access |-> {}]

\* Variant of Switch: function code 0x10 falls into the write case.
Switch_0x10_as_write(r, map, mapping) ==
    CASE r.operation \in {3, 4}  -> ReadCase(r, map, mapping)
      [] r.operation \in {6, 16} -> WriteCase(r, map, mapping)
      [] OTHER                   -> DefaultCase(r, map, mapping)

Switch(r, map, mapping) ==
    CASE r.operation \in {3, 4} -> ReadCase(r, map, mapping)
      [] r.operation = 6        -> WriteCase(r, map, mapping)
      [] OTHER                  -> DefaultCase(r, map, mapping)

(***************************************************************************)
(* libmodbus reply builders, as main calls them.  A result is the frame    *)
(* handed to the transport (<< >> when the call fails before sending) and  *)
(* the response mapping afterwards.                                        *)
(***************************************************************************)
HiByte(v) == (v \div 256) % 256
LoByte(v) == v % 256

RECURSIVE RegisterBytes(_, _, _)
RegisterBytes(tab, first, nb) ==
    IF nb = 0 THEN << >>
    ELSE <<HiByte(tab[first]), LoByte(tab[first])>>
         \o RegisterBytes(tab, first + 1, nb - 1)

response_exception(slave, function, code) ==
    <<slave, (function + 128) % 256, code>>

ReplyRead(q, function, address, nb_registers, tab) ==
    LET nb == q[header_length + 4] * 256 + q[header_length + 5] IN
    IF nb < 1 \/ MODBUS_MAX_READ_REGISTERS < nb
    THEN response_exception(q[header_length], function,
                            MODBUS_EXCEPTION_ILLEGAL_DATA_VALUE)
    ELSE IF address + nb > nb_registers
    THEN response_exception(q[header_length], function,
                            MODBUS_EXCEPTION_ILLEGAL_DATA_ADDRESS)
    ELSE <<q[header_length], function, (nb * 2) % 256>>
         \o RegisterBytes(tab, address, nb)

modbus_reply(q, req_length, mapping) ==
    LET function == q[header_length + 1]
        address  == q[header_length + 2] * 256 + q[header_length + 3]
    IN
    CASE function = 3 ->
           [rsp |-> ReplyRead(q, function, address,
                              mapping.nb_registers, mapping.tab_registers),
            mb_mapping |-> mapping]
      [] function = 4 ->
           [rsp |-> ReplyRead(q, function, address,
                              mapping.nb_input_registers,
                              mapping.tab_input_registers),
            mb_mapping |-> mapping]
      [] function = 6 ->
           IF address >= mapping.nb_registers
           THEN [rsp |-> response_exception(q[header_length], function,
                                            MODBUS_EXCEPTION_ILLEGAL_DATA_ADDRESS),
                 mb_mapping |-> mapping]
           ELSE [rsp |-> SubSeq(q, 1, req_length - CHECKSUM_LENGTH),
                 mb_mapping |->
                    [mapping EXCEPT !.tab_registers[address] =
                        q[header_length + 4] * 256 + q[header_length + 5]]]
      [] OTHER ->
           [rsp |-> response_exception(q[header_length], function,
                                       MODBUS_EXCEPTION_ILLEGAL_FUNCTION),
            mb_mapping |-> mapping]

modbus_reply_exception(q, code) ==
    IF code < MODBUS_EXCEPTION_MAX
    THEN response_exception(q[header_length], q[header_length + 1], code)
    ELSE << >>

(***************************************************************************)
(* What main hands to the transport for this request ("Send reply to       *)
(* client"): modbus_reply when exception_code is 0, else the exception.    *)
(***************************************************************************)
BuildReply(q, len, code, mapping) ==
    IF code = 0
    THEN modbus_reply(q, len, mapping)
    ELSE [rsp |-> modbus_reply_exception(q, code), mb_mapping |-> mapping]

(***************************************************************************)
(* Initial state: main entered with argc >= 3, own_addr parsed.            *)
(***************************************************************************)
Init ==
    /\ pc = "new_rtu"
    /\ own_addr \in OwnAddrs
    /\ reg_map = [i \in RegIndex |-> 0]
    /\ query = << >>
    /\ rc = 0
    /\ req = NoReq
    /\ exception_code = 0
    /\ mb_mapping = NULL
    /\ tx = << >>
    /\ log = << >>
    /\ exit_status = Running
    /\ touched = {}
    /\ last_write = [i \in RegIndex |-> 0]
    /\ start_map = [i \in RegIndex |-> 0]
    /\ prev = NoPrev
    /\ prog = "mbs"
    /\ argv = [slave_addr |-> own_addr]
    /\ answer = NoAnswer

(***************************************************************************)
(* Start-up: one step of "Initialize communication port".  A failing step  *)
(* logs and returns -1; the last one enters the main loop.                 *)
(***************************************************************************)
StartupSteps == <<"new_rtu", "connect", "set_rts", "set_rts_delay", "receive">>

StartupLog(step) ==
    CASE step = "new_rtu"       -> "Unable to create the libmodbus context"
      [] step = "connect"       -> "Connection failed"
      [] step = "set_rts"       -> "Setting RTS mode failed"
      [] step = "set_rts_delay" -> "Setting RTS delay failed"

\* Variant of StartupStep: a failing step is logged and start-up goes on.
StartupStep_ignore_failure(i) ==
    /\ pc = StartupSteps[i]
    /\ pc' = StartupSteps[i + 1]
    /\ \/ UNCHANGED <<log, exit_status>>
       \/ /\ log' = <<StartupLog(StartupSteps[i])>>
          /\ UNCHANGED exit_status
    /\ UNCHANGED <<own_addr, reg_map, query, rc, req, exception_code,
                   mb_mapping, tx, touched, last_write>>

StartupStep(i) ==
    /\ pc = StartupSteps[i]
    /\ \/ /\ pc' = StartupSteps[i + 1]
          /\ UNCHANGED <<log, exit_status>>
       \/ /\ pc' = "exit"
          /\ log' = <<StartupLog(StartupSteps[i])>>
          /\ exit_status' = <<-1>>
    /\ UNCHANGED <<own_addr, reg_map, query, rc, req, exception_code,
                   mb_mapping, tx, touched, last_write>>

Startup == \E i \in 1 .. (Len(StartupSteps) - 1) : StartupStep(i)

(***************************************************************************)
(* History of the wire: the latest addressed in-range write frame per      *)
(* register address, read off the raw bytes of the frame.                  *)
(***************************************************************************)
Seen(hist, f, own) ==
    IF /\ f[1] = own
       /\ f[2] = 6
       /\ f[3] * 256 + f[4] < MAX_REG
    THEN [hist EXCEPT ![f[3] * 256 + f[4]] = f[5] * 256 + f[6]]
    ELSE hist

(***************************************************************************)
(* Main loop, top: modbus_receive and, on success, the request decode.     *)
(***************************************************************************)
\* Variant of ReceiveFail: a failed modbus_receive ends the program.
ReceiveFail_fatal ==
    /\ pc = "receive"
    /\ cont # 0
    /\ rc' = -1
    /\ log' = <<"modbus_receive() failed">>
    /\ tx' = << >>
    /\ touched' = {}
    /\ pc' = "exit"
    /\ exit_status' = <<-1>>
    /\ UNCHANGED <<own_addr, reg_map, query, req, exception_code,
                   mb_mapping, last_write>>

ReceiveFail ==
    /\ pc = "receive"
    /\ cont # 0
    /\ rc' = -1
    /\ log' = <<"modbus_receive() failed">>
    /\ tx' = << >>
    /\ touched' = {}
    /\ UNCHANGED <<pc, own_addr, reg_map, query, req, exception_code,
                   mb_mapping, exit_status, last_write>>

\* Variant of ReceiveFrame: exception_code is not cleared for the new request.
ReceiveFrame_no_reset(f) ==
    /\ pc = "receive"
    /\ cont # 0
    /\ query' = f
    /\ rc' = Len(f) + CHECKSUM_LENGTH
    /\ req' = Decode(f)
    /\ tx' = << >>
    /\ log' = << >>
    /\ touched' = {}
    /\ last_write' = Seen(last_write, f, own_addr)
    /\ pc' = "filter"
    /\ UNCHANGED <<own_addr, reg_map, mb_mapping, exit_status, exception_code>>

ReceiveFrame(f) ==
    /\ pc = "receive"
    /\ cont # 0
    /\ query' = f
    /\ rc' = Len(f) + CHECKSUM_LENGTH
    /\ req' = Decode(f)
    /\ exception_code' = 0
    /\ tx' = << >>
    /\ log' = << >>
    /\ touched' = {}
    /\ last_write' = Seen(last_write, f, own_addr)
    /\ pc' = "filter"
    /\ UNCHANGED <<own_addr, reg_map, mb_mapping, exit_status>>

Receive == ReceiveFail \/ \E f \in Frames : ReceiveFrame(f)

(***************************************************************************)
(* "Check if slave address matches with our own address"                   *)
(***************************************************************************)
Filter ==
    /\ pc = "filter"
    /\ pc' = IF AddressMatches(req.slave_addr, own_addr) THEN "alloc" ELSE "receive"
    /\ UNCHANGED <<own_addr, reg_map, query, rc, req, exception_code,
                   mb_mapping, tx, log, exit_status, touched, last_write>>

(***************************************************************************)
(* "Initialise new response data structure"                                *)
(***************************************************************************)
AllocOk ==
    /\ pc = "alloc"
    /\ mb_mapping' = modbus_mapping_new(MAX_REG, 0)
    /\ pc' = "dispatch"
    /\ UNCHANGED <<own_addr, reg_map, query, rc, req, exception_code,
                   tx, log, exit_status, touched, last_write>>

AllocFail ==
    /\ pc = "alloc"
    /\ mb_mapping' = NULL
    /\ log' = Append(log, "Failed to allocate the mapping")
    /\ exit_status' = <<-1>>
    /\ pc' = "exit"
    /\ UNCHANGED <<own_addr, reg_map, query, rc, req, exception_code,
                   tx, touched, last_write>>

Alloc == AllocOk \/ AllocFail

(***************************************************************************)
(* "Perform requested operation"                                           *)
(***************************************************************************)
Dispatch ==
    /\ pc = "dispatch"
    /\ LET d == Switch(req, reg_map, mb_mapping) IN
        /\ exception_code' = IF d.exception_code # 0
                             THEN d.exception_code
                             ELSE exception_code
        /\ reg_map' = d.reg_map
        /\ touched' = d.access
        /\ mb_mapping' = d.mb_mapping
        /\ req' = [req EXCEPT !.reg_val = d.reg_val]
        /\ log' = IF d.exception_code = MODBUS_EXCEPTION_ILLEGAL_FUNCTION
                  THEN Append(log, "Invalid operation")
                  ELSE log
    /\ pc' = "reply"
    /\ UNCHANGED <<own_addr, query, rc, tx, exit_status, last_write>>

(***************************************************************************)
(* "Send reply to client", then modbus_mapping_free and back to the top.   *)
(***************************************************************************)
ReplyLog(code) ==
    IF code = 0
    THEN "Failed to send reply to the client"
    ELSE "Failed to send exception reply to the client"

\* Variant of Reply: a failed send ends the program.
Reply_fatal(sent_ok) ==
    /\ pc = "reply"
    /\ LET b == BuildReply(query, rc, exception_code, mb_mapping) IN
        /\ tx' = IF b.rsp = << >> THEN tx ELSE Append(tx, b.rsp)
        /\ IF sent_ok /\ b.rsp # << >>
           THEN /\ rc' = Len(b.rsp) + CHECKSUM_LENGTH
                /\ log' = log
                /\ pc' = "receive"
                /\ exit_status' = exit_status
           ELSE /\ rc' = -1
                /\ log' = Append(log, ReplyLog(exception_code))
                /\ pc' = "exit"
                /\ exit_status' = <<-1>>
    /\ mb_mapping' = NULL
    /\ UNCHANGED <<own_addr, reg_map, query, req, exception_code,
                   touched, last_write>>

\* Variant of Reply: the response mapping is not freed when the send fails.
Reply_leak_on_send_failure(sent_ok) ==
    /\ pc = "reply"
    /\ LET b == BuildReply(query, rc, exception_code, mb_mapping) IN
        /\ tx' = IF b.rsp = << >> THEN tx ELSE Append(tx, b.rsp)
        /\ IF sent_ok /\ b.rsp # << >>
           THEN /\ rc' = Len(b.rsp) + CHECKSUM_LENGTH
                /\ log' = log
                /\ mb_mapping' = NULL
           ELSE /\ rc' = -1
                /\ log' = Append(log, ReplyLog(exception_code))
                /\ mb_mapping' = mb_mapping
    /\ pc' = "receive"
    /\ UNCHANGED <<own_addr, reg_map, query, req, exception_code,
                   exit_status, touched, last_write>>

\* Variant of Reply: a failed send is tried a second time.
Reply_retry(sent_ok) ==
    /\ pc = "reply"
    /\ LET b == BuildReply(query, rc, exception_code, mb_mapping) IN
        IF sent_ok
        THEN /\ tx' = Append(tx, b.rsp)
             /\ rc' = Len(b.rsp) + CHECKSUM_LENGTH
             /\ log' = log
        ELSE /\ tx' = Append(Append(tx, b.rsp), b.rsp)
             /\ rc' = -1
             /\ log' = Append(log, ReplyLog(exception_code))
    /\ mb_mapping' = NULL
    /\ pc' = "receive"
    /\ UNCHANGED <<own_addr, reg_map, query, req, exception_code,
                   exit_status, touched, last_write>>

Reply(sent_ok) ==
    /\ pc = "reply"
    /\ LET b == BuildReply(query, rc, exception_code, mb_mapping) IN
        /\ tx' = IF b.rsp = << >> THEN tx ELSE Append(tx, b.rsp)
        /\ IF sent_ok /\ b.rsp # << >>
           THEN /\ rc' = Len(b.rsp) + CHECKSUM_LENGTH
                /\ log' = log
           ELSE /\ rc' = -1
                /\ log' = Append(log, ReplyLog(exception_code))
    /\ mb_mapping' = NULL
    /\ pc' = "receive"
    /\ UNCHANGED <<own_addr, reg_map, query, req, exception_code,
                   exit_status, touched, last_write>>

Next ==
    \/ Startup /\ UNCHANGED <<history, master>>
    \/ Receive /\ UNCHANGED <<history, master>>
    \/ Filter /\ UNCHANGED <<history, master>>
    \/ Alloc /\ UNCHANGED <<history, master>>
    \/ Dispatch /\ UNCHANGED <<history, master>>
    \/ \E sent_ok \in BOOLEAN : Reply(sent_ok) /\ UNCHANGED <<history, master>>

Spec == Init /\ [][Next]_vars

(***************************************************************************)
(* The same program with the history of the previous iteration recorded    *)
(* when a frame arrives, over a smaller set of frames.                     *)
(***************************************************************************)
HistFrames ==
    { <<s, f, 0, al, 0, n>> :
        s \in SlaveBytes, f \in {3, 4, 6, 7}, al \in {30, 32}, n \in {1, MaxCount} }

Record ==
    /\ prev' = [query |-> query, tx |-> tx, start_map |-> start_map]
    /\ start_map' = reg_map

NextHist ==
    \/ Startup /\ UNCHANGED <<history, master>>
    \/ ReceiveFail /\ UNCHANGED <<history, master>>
    \/ \E f \in HistFrames : ReceiveFrame(f) /\ Record /\ UNCHANGED master
    \/ Filter /\ UNCHANGED <<history, master>>
    \/ Alloc /\ UNCHANGED <<history, master>>
    \/ Dispatch /\ UNCHANGED <<history, master>>
    \/ \E sent_ok \in BOOLEAN : Reply(sent_ok) /\ UNCHANGED <<history, master>>

SpecHist == Init /\ [][NextHist]_vars

(***************************************************************************)
(* The one-shot master tools: mbm (mbm.c), the T/H sensor configuration    *)
(* tool thconf (thconf.c) and the relay configuration tool relconf (second *)
(* program of mbs.c).  Each parses its command line, initialises the port  *)
(* like the responder does, performs its request and returns.  log holds   *)
(* the lines printed to standard output, tx the requests handed to the     *)
(* transport, answer what the device did with the last one: "ok" (the      *)
(* response the request asks for), "wrong" (an exception response) or      *)
(* "silent" (nothing before the response timeout).                         *)
(***************************************************************************)
MaxPolls == 3                  \* requests of one polling run that are followed

Tools == {"mbm", "thconf", "relconf"}
Answers == {"ok", "wrong", "silent"}

slave == <<own_addr, reg_map, query, req, exception_code, mb_mapping,
           touched, last_write, start_map, prev>>

\* mbm <mode> <baudrate> <slave_addr> <start_addr> <arg5> [<arg6> ...]
MbmArgs ==
    { [argc |-> c, mode |-> m, arg5 |-> n, arg6 |-> p] :
        c \in {1, 6, 7}, m \in {"r", "R", "w", "W", "x"},
        n \in {-1, 1, 40}, p \in {0, 2} }

\* thconf <baudrate> <slave_addr> <new_baudrate> <new_slave_addr>
ThconfArgs ==
    { [argc |-> c, baudrate |-> b, slave_addr |-> a,
       new_baudrate |-> nb, new_slave_addr |-> na] :
        c \in {1, 5}, b \in {9600, 38400}, a \in {0, 1, 247, 248},
        nb \in {1200, 19200, 0}, na \in {0, 1, 247, 248} }

\* relconf <reg_addr> [<reg_val>]
RelconfArgs ==
    { [argc |-> c, reg_addr |-> a, reg_val |-> v] :
        c \in {1, 2, 3}, a \in {1, 2}, v \in {1, 1234} }

ArgsOf(p) ==
    CASE p = "mbm" -> MbmArgs
      [] p = "thconf" -> ThconfArgs
      [] p = "relconf" -> RelconfArgs

InitTools ==
    /\ pc = "parse"
    /\ prog \in Tools
    /\ argv \in ArgsOf(prog)
    /\ answer = NoAnswer
    /\ rc = 0
    /\ tx = << >>
    /\ log = << >>
    /\ exit_status = Running
    /\ own_addr = 0
    /\ reg_map = [i \in RegIndex |-> 0]
    /\ query = << >>
    /\ req = NoReq
    /\ exception_code = 0
    /\ mb_mapping = NULL
    /\ touched = {}
    /\ last_write = [i \in RegIndex |-> 0]
    /\ start_map = [i \in RegIndex |-> 0]
    /\ prev = NoPrev

(***************************************************************************)
(* "Initialize communication port": the same four calls in every tool.     *)
(***************************************************************************)
ToolSteps == <<"new_rtu", "connect", "set_rts", "set_rts_delay", "request">>

ToolStartupStep(i) ==
    /\ prog \in Tools
    /\ pc = ToolSteps[i]
    /\ \/ /\ pc' = ToolSteps[i + 1]
          /\ UNCHANGED <<log, exit_status>>
       \/ /\ pc' = "exit"
          /\ log' = Append(log, StartupLog(ToolSteps[i]))
          /\ exit_status' = <<-1>>
    /\ UNCHANGED <<rc, tx, prog, argv, answer>>

ToolStartup == \E i \in 1 .. (Len(ToolSteps) - 1) : ToolStartupStep(i)

(***************************************************************************)
(* mbm                                                                     *)
(***************************************************************************)
mode == argv.mode

num_reg ==
    LET n == CASE mode \in {"r", "R"} -> argv.arg5
               [] mode = "W" -> argv.argc - 5
               [] OTHER -> 1
    IN  IF n > MAX_REG THEN MAX_REG ELSE n

poll_period ==
    IF mode \in {"r", "R"} /\ argv.argc > 6 THEN argv.arg6 ELSE 0

\* libmodbus: the number of registers read or written, -1 on any failure.
modbus_read_registers(nb, ans) == IF ans = "ok" /\ nb >= 1 THEN nb ELSE -1
modbus_write_register(ans) == IF ans = "ok" THEN 1 ELSE -1
modbus_write_registers(nb, ans) == IF ans = "ok" /\ nb >= 1 THEN nb ELSE -1

MbmFunction ==
    CASE mode = "r" -> 3
      [] mode = "R" -> 4
      [] mode = "w" -> 6
      [] mode = "W" -> 16

MbmError ==
    CASE mode = "r" -> "Unable to read holding registers"
      [] mode = "R" -> "Unable to read input registers"
      [] mode = "w" -> "Unable to write single register"
      [] mode = "W" -> "Unable to write multiple registers"

\* one printed line per register
RegLines(n) == [i \in 1 .. n |-> "reg"]

MbmParse ==
    /\ prog = "mbm"
    /\ pc = "parse"
    /\ IF argv.argc < 6
       THEN /\ log' = <<"usage">>
            /\ pc' = "exit"
            /\ exit_status' = <<0>>
       ELSE IF mode \notin {"r", "R", "w", "W"}
       THEN /\ log' = <<"Invalid mode">>
            /\ pc' = "exit"
            /\ exit_status' = <<-1>>
       ELSE /\ pc' = "new_rtu"
            /\ UNCHANGED <<log, exit_status>>
    /\ UNCHANGED <<rc, tx, prog, argv, answer>>

MbmRequest(ans) ==
    /\ prog = "mbm"
    /\ pc = "request"
    /\ Len(tx) < MaxPolls
    /\ LET expected == IF mode = "w" THEN 1 ELSE num_reg
           r == CASE mode \in {"r", "R"} -> modbus_read_registers(num_reg, ans)
                  [] mode = "w" -> modbus_write_register(ans)
                  [] mode = "W" -> modbus_write_registers(num_reg, ans)
       IN  /\ tx' = Append(tx, <<MbmFunction, expected>>)
           /\ answer' = ans
           /\ rc' = r
           /\ IF r # expected
              THEN /\ log' = Append(log, MbmError)
                   /\ pc' = "exit"
                   /\ exit_status' = <<r>>
              ELSE /\ log' = log \o RegLines(expected)
                   /\ IF mode \in {"r", "R"} /\ poll_period # 0
                      THEN UNCHANGED <<pc, exit_status>>
                      ELSE /\ pc' = "exit"
                           /\ exit_status' = <<r>>
    /\ UNCHANGED <<prog, argv>>

(***************************************************************************)
(* thconf                                                                  *)
(***************************************************************************)
RSP_FRAME_LEN == 6
MODBUS_FC_WRITE_SINGLE_REGISTER == 6
MODBUS_FC_READ_HOLDING_REGISTERS == 3

\* Variant of check_baudrate: 38400 is accepted too.
check_baudrate_38400(baudrate) ==
    CASE baudrate = 1200 -> 3
      [] baudrate = 2400 -> 4
      [] baudrate = 4800 -> 5
      [] baudrate = 9600 -> 6
      [] baudrate = 19200 -> 7
      [] baudrate = 38400 -> 8
      [] OTHER -> 0

check_baudrate(baudrate) ==
    CASE baudrate = 1200 -> 3
      [] baudrate = 2400 -> 4
      [] baudrate = 4800 -> 5
      [] baudrate = 9600 -> 6
      [] baudrate = 19200 -> 7
      [] OTHER -> 0

thconf_raw_req ==
    <<argv.slave_addr, MODBUS_FC_WRITE_SINGLE_REGISTER, 0, 0, 0, 1, 2,
      argv.new_slave_addr, check_baudrate(argv.new_baudrate)>>

\* rsp[] after modbus_receive_confirmation: the echo of the request, an
\* exception response, or, when nothing arrived, the bytes the array
\* happened to hold (it is not initialised): the same as the request or not.
ThconfRsp(ans, same) ==
    CASE ans = "ok" -> SubSeq(thconf_raw_req, 1, RSP_FRAME_LEN)
      [] ans = "wrong" -> <<argv.slave_addr, 134, 1, 0, 0, 0>>
      [] ans = "silent" -> IF same
                           THEN SubSeq(thconf_raw_req, 1, RSP_FRAME_LEN)
                           ELSE <<0, 0, 0, 0, 0, 0>>

ThconfParse ==
    /\ prog = "thconf"
    /\ pc = "parse"
    /\ IF argv.argc < 5
       THEN /\ log' = <<"usage">>
            /\ pc' = "exit"
            /\ exit_status' = <<0>>
       ELSE IF check_baudrate(argv.baudrate) = 0
       THEN /\ log' = <<"Invalid baudrate">>
            /\ pc' = "exit"
            /\ exit_status' = <<-1>>
       ELSE IF check_baudrate(argv.new_baudrate) = 0
       THEN /\ log' = <<"Invalid new baudrate">>
            /\ pc' = "exit"
            /\ exit_status' = <<-1>>
       ELSE IF argv.slave_addr < 1 \/ argv.slave_addr > 247
       THEN /\ log' = <<"Invalid slave address">>
            /\ pc' = "exit"
            /\ exit_status' = <<-1>>
       ELSE IF argv.new_slave_addr < 1 \/ argv.new_slave_addr > 247
       THEN /\ log' = <<"Invalid new slave address">>
            /\ pc' = "exit"
            /\ exit_status' = <<-1>>
       ELSE /\ pc' = "new_rtu"
            /\ UNCHANGED <<log, exit_status>>
    /\ UNCHANGED <<rc, tx, prog, argv, answer>>

ThconfRequest(ans, same) ==
    /\ prog = "thconf"
    /\ pc = "request"
    /\ tx' = Append(tx, thconf_raw_req)
    /\ answer' = ans
    /\ log' = IF SubSeq(thconf_raw_req, 1, RSP_FRAME_LEN)
                  = SubSeq(ThconfRsp(ans, same), 1, RSP_FRAME_LEN)
              THEN log \o <<"Successfully changed sensor configuration">>
                       \o (IF argv.baudrate # argv.new_baudrate
                           THEN <<"New baudrate">> ELSE << >>)
                       \o (IF argv.slave_addr # argv.new_slave_addr
                           THEN <<"New slave address">> ELSE << >>)
              ELSE Append(log, "ERROR changing sensor configuration, check parameters")
    /\ pc' = "exit"
    /\ exit_status' = <<0>>
    /\ UNCHANGED <<rc, prog, argv>>

(***************************************************************************)
(* relconf                                                                 *)
(***************************************************************************)
fc ==
    IF argv.argc > 2
    THEN MODBUS_FC_WRITE_SINGLE_REGISTER
    ELSE MODBUS_FC_READ_HOLDING_REGISTERS

reg_val == IF argv.argc > 2 THEN argv.reg_val ELSE 1

relconf_raw_req ==
    <<255, fc, 0, argv.reg_addr % 256, (reg_val \div 256) % 256, reg_val % 256>>

\* libmodbus: the length of the frame received (CRC included), -1 if none.
modbus_receive_confirmation(ans) ==
    CASE ans = "silent" -> -1
      [] ans = "wrong" -> 3 + CHECKSUM_LENGTH
      [] ans = "ok" -> IF fc = MODBUS_FC_READ_HOLDING_REGISTERS
                       THEN 5 + CHECKSUM_LENGTH
                       ELSE 6 + CHECKSUM_LENGTH

RelconfParse ==
    /\ prog = "relconf"
    /\ pc = "parse"
    /\ IF argv.argc < 2
       THEN /\ log' = <<"usage">>
            /\ pc' = "exit"
            /\ exit_status' = <<0>>
       ELSE /\ pc' = "new_rtu"
            /\ UNCHANGED <<log, exit_status>>
    /\ UNCHANGED <<rc, tx, prog, argv, answer>>

RelconfRequest(ans) ==
    /\ prog = "relconf"
    /\ pc = "request"
    /\ tx' = Append(tx, relconf_raw_req)
    /\ answer' = ans
    /\ rc' = modbus_receive_confirmation(ans)
    /\ log' = IF rc' # -1
              THEN Append(log, "reg")
              ELSE Append(log, "ERROR performing Modbus request")
    /\ pc' = "exit"
    /\ exit_status' = <<0>>
    /\ UNCHANGED <<prog, argv>>

NextTools ==
    \/ MbmParse /\ UNCHANGED slave
    \/ ThconfParse /\ UNCHANGED slave
    \/ RelconfParse /\ UNCHANGED slave
    \/ ToolStartup /\ UNCHANGED slave
    \/ \E ans \in Answers : MbmRequest(ans) /\ UNCHANGED slave
    \/ \E ans \in Answers : \E same \in BOOLEAN :
          ThconfRequest(ans, same) /\ UNCHANGED slave
    \/ \E ans \in Answers : RelconfRequest(ans) /\ UNCHANGED slave

SpecTools == InitTools /\ [][NextTools]_vars

(***************************************************************************)
(* Vocabulary of the properties: the request in query[] read off its raw   *)
(* bytes, and the shape of a reply frame.                                  *)
(***************************************************************************)
InFlight == pc \in {"filter", "alloc", "dispatch", "reply"}
Addressed == query # << >> /\ query[1] = own_addr
ReqFc == query[2]
ReqAddr == query[3] * 256 + query[4]
ReqVal == query[5] * 256 + query[6]
IsExceptionReply(rsp) == rsp[2] >= 128
IsNormalReply(rsp) == rsp[2] < 128
U16Bytes(v) == <<v \div 256, v % 256>>

\* C1: an addressed Write Single Register (0x06) request with register
\* address a < MAX_REG and value v leaves reg_map equal to the map at
\* dispatch with a set to v (every other register unchanged, also in the
\* steps before and after the switch), and the frame handed to the
\* transport is the normal reply <<slave, 0x06, a, v>>.
C1_WriteInRange ==
    [][ (InFlight /\ Addressed /\ ReqFc = 6 /\ ReqAddr < MAX_REG) =>
          /\ pc = "dispatch" =>
                /\ reg_map' = [reg_map EXCEPT ![ReqAddr] = ReqVal]
                /\ reg_map'[ReqAddr] = ReqVal
                /\ exception_code' = 0
          /\ pc # "dispatch" => reg_map' = reg_map
          /\ pc = "reply" =>
                /\ reg_map[ReqAddr] = ReqVal
                /\ tx' = << <<own_addr, 6>> \o U16Bytes(ReqAddr) \o U16Bytes(ReqVal) >>
      ]_vars

C1_Witness ==
    /\ pc = "receive"
    /\ query = <<5, 6, 0, 30, 4, 210>>
    /\ tx = << <<5, 6, 0, 30, 4, 210>> >>
    /\ rc = 8
    /\ reg_map[30] = 1234
    /\ reg_map[31] = 1

\* C3: an addressed request with function code 0x03, 0x04 or 0x06 and
\* register address a >= MAX_REG modifies no register in any step of its
\* processing, sets exception code Illegal Data Address (0x02) in the
\* switch, and the frame handed to the transport is the exception reply
\* <<slave, fc + 0x80, 0x02>>.
C3_OutOfRange ==
    [][ (InFlight /\ Addressed /\ ReqFc \in {3, 4, 6} /\ ReqAddr >= MAX_REG) =>
          /\ reg_map' = reg_map
          /\ pc = "dispatch" => exception_code' = 2
          /\ pc = "reply" => tx' = << <<own_addr, ReqFc + 128, 2>> >>
      ]_vars

C3_Witness ==
    /\ pc = "receive"
    /\ query = <<5, 6, 0, 32, 4, 210>>
    /\ tx = << <<5, 134, 2>> >>
    /\ reg_map[31] = 2
    /\ rc = 5

\* C4: an addressed request whose function code is not 0x03, 0x04 or 0x06
\* modifies no register, whatever its address and value bytes, and the
\* frame handed to the transport is the exception reply
\* <<slave, fc + 0x80, 0x01>> (Illegal Function).
C4_IllegalFunction ==
    [][ (InFlight /\ Addressed /\ ReqFc \notin {3, 4, 6}) =>
          /\ reg_map' = reg_map
          /\ pc = "dispatch" => exception_code' = 1
          /\ pc = "reply" => tx' = << <<own_addr, (ReqFc + 128) % 256, 1>> >>
      ]_vars

C4_Witness ==
    /\ pc = "receive"
    /\ query = <<5, 16, 0, 30, 4, 210>>
    /\ tx = << <<5, 144, 1>> >>
    /\ reg_map[30] = 1
    /\ rc = 5

\* C5: a received frame whose slave byte differs from own_addr, whatever
\* its function code, address and value, goes from the address filter
\* straight back to modbus_receive: nothing is handed to the transport, no
\* exception code is set, nothing is logged, no response mapping is
\* allocated and reg_map is unchanged.
C5_Unaddressed ==
    [][ (pc = "filter" /\ query[1] # own_addr) =>
          /\ pc' = "receive"
          /\ tx = << >> /\ tx' = << >>
          /\ exception_code' = 0
          /\ log' = << >>
          /\ mb_mapping' = NULL
          /\ reg_map' = reg_map
      ]_vars

C5_Witness ==
    /\ pc = "receive"
    /\ own_addr = 5
    /\ query = <<9, 6, 0, 30, 0, 1>>
    /\ rc = 8
    /\ tx = << >>
    /\ reg_map[30] = 1234

(***************************************************************************)
(* Read requests.  A read request is valid when its count field n is a     *)
(* legal Modbus register count and the requested block a .. a+n-1 lies in  *)
(* the register map.                                                       *)
(***************************************************************************)
ValidRead ==
    /\ ReqFc \in {3, 4}
    /\ 1 <= ReqVal /\ ReqVal <= MODBUS_MAX_READ_REGISTERS
    /\ ReqAddr + ReqVal <= MAX_REG

RECURSIVE MapBytes(_, _, _)
MapBytes(map, first, n) ==
    IF n = 0 THEN << >>
    ELSE U16Bytes(map[first]) \o MapBytes(map, first + 1, n - 1)

\* C2: for an addressed valid read request (function code 0x03 or 0x04,
\* a < MAX_REG) the frame handed to the transport is a normal reply
\* <<slave, fc, byte count, payload>> whose first payload register is
\* reg_map[a] as it is at dispatch, and reg_map is unchanged.
C2_ReadInRange ==
    [][ (InFlight /\ Addressed /\ ValidRead) =>
          /\ reg_map' = reg_map
          /\ pc = "reply" =>
                /\ Len(tx') = 1
                /\ IsNormalReply(tx'[1])
                /\ SubSeq(tx'[1], 1, 2) = <<own_addr, ReqFc>>
                /\ SubSeq(tx'[1], 4, 5) = U16Bytes(reg_map[ReqAddr])
      ]_vars

\* C6: for an addressed Read Holding Registers (0x03) request with start
\* address a and count n >= 1, a + n <= MAX_REG, the frame handed to the
\* transport is <<slave, 0x03, 2n>> followed by reg_map[a], reg_map[a+1],
\* ..., reg_map[a+n-1], two bytes each, in that order.
C6_AllRequestedRegisters ==
    [][ (pc = "reply" /\ Addressed /\ ValidRead /\ ReqFc = 3) =>
          tx' = << <<own_addr, 3, 2 * ReqVal>> \o MapBytes(reg_map, ReqAddr, ReqVal) >>
      ]_vars

\* C7: the frame handed to the transport for an addressed Read Input
\* Registers (0x04) request is, but for the function code byte, the frame
\* the same request with function code 0x03 gets from the same register
\* map (same kind, same payload or exception code), and neither changes
\* reg_map.
OutcomeAs(function) ==
    LET q == [query EXCEPT ![2] = function]
        d == Switch(Decode(q), reg_map, modbus_mapping_new(MAX_REG, 0))
        b == BuildReply(q, rc, d.exception_code, d.mb_mapping)
    IN  [rsp |-> b.rsp, reg_map |-> d.reg_map]

SameButFunction(rsp4, rsp3) ==
    /\ Len(rsp4) = Len(rsp3)
    /\ rsp4[2] = rsp3[2] + 1
    /\ \A i \in (1 .. Len(rsp3)) \ {2} : rsp4[i] = rsp3[i]

C7_ReadInputLikeHolding ==
    [][ (pc = "reply" /\ Addressed /\ ReqFc = 4) =>
          /\ Len(tx') = 1
          /\ SameButFunction(tx'[1], OutcomeAs(3).rsp)
          /\ reg_map' = reg_map
          /\ OutcomeAs(3).reg_map = reg_map
      ]_vars

\* C8: every frame handed to the transport that is an exception reply is
\* <<slave, fc + 0x80, code>> with code in {0x01, 0x02, 0x04} and nothing
\* after it, and a frame handed to the transport is an exception reply
\* exactly when the exception code set by the switch is non-zero.
C8_ExceptionReplyShape ==
    [][ pc = "reply" =>
          \A i \in 1 .. Len(tx') :
             /\ IsExceptionReply(tx'[i]) <=> exception_code # 0
             /\ IsExceptionReply(tx'[i]) =>
                   /\ Len(tx'[i]) = 3
                   /\ tx'[i][1] = own_addr
                   /\ tx'[i][2] = ReqFc + 128
                   /\ tx'[i][3] \in {1, 2, 4}
      ]_vars

\* C9: every received frame addressed to the responder is followed, before
\* main returns to modbus_receive or leaves the loop, by exactly one frame
\* handed to the transport; frames are handed to the transport only in the
\* reply step of an addressed request, one per request.
C9_OneReplyPerRequest ==
    [][ /\ (pc \in {"alloc", "dispatch", "reply"} /\ pc' \in {"receive", "exit"}) =>
              Len(tx') = 1
        /\ (pc = "filter" /\ Addressed) => pc' = "alloc"
        /\ (tx' # tx /\ tx' # << >>) =>
              /\ pc = "reply" /\ Addressed
              /\ tx = << >> /\ Len(tx') = 1
              /\ pc' = "receive"
      ]_vars

RepeatedRead ==
    /\ Addressed
    /\ ReqFc \in {3, 4}
    /\ prev.query = query
    /\ Len(prev.tx) = 1

C11_RepeatedReadSameReply ==
    [][ (pc = "reply" /\ RepeatedRead) =>
          /\ tx' = prev.tx
          /\ reg_map' = prev.start_map
      ]_vars

C11_Witness ==
    /\ pc = "receive"
    /\ query = <<5, 3, 0, 30, 0, 1>>
    /\ prev.query = query
    /\ prev.tx = << <<5, 3, 2, 0, 1>> >>
    /\ tx = prev.tx
    /\ reg_map[30] = 1
    /\ prev.start_map = reg_map

\* C12: when modbus_receive fails, nothing is handed to the transport (no
\* exception reply either), reg_map is unchanged, no response mapping is
\* allocated, the failure is logged, main has not returned and is again
\* about to call modbus_receive.
C12_ReceiveFailure ==
    [][ (pc = "receive" /\ rc' = -1) =>
          /\ tx' = << >>
          /\ reg_map' = reg_map
          /\ mb_mapping' = NULL
          /\ log' = <<"modbus_receive() failed">>
          /\ exit_status' = Running
          /\ pc' = "receive" /\ cont # 0
      ]_vars

C12_Witness ==
    /\ pc = "receive"
    /\ rc = -1
    /\ log = <<"modbus_receive() failed">>
    /\ tx = << >>
    /\ query = <<5, 6, 0, 30, 4, 210>>
    /\ reg_map[30] = 1234
    /\ exit_status = Running

\* C13: once the failure to allocate the response mapping has been logged,
\* the responder is still in its main loop: main has not returned.
C13_AllocFailureContinues ==
    (\E i \in 1 .. Len(log) : log[i] = "Failed to allocate the mapping") =>
        /\ pc # "exit"
        /\ exit_status = Running

\* C14: when the send of a reply (normal or exception) fails, the failure
\* is logged, the frame has been handed to the transport once and is not
\* handed over again, reg_map keeps what the request wrote, main has not
\* returned and is about to call modbus_receive.
C14_SendFailure ==
    [][ (pc = "reply" /\ rc' = -1) =>
          /\ log' = Append(log, ReplyLog(exception_code))
          /\ tx = << >> /\ Len(tx') = 1
          /\ reg_map' = reg_map
          /\ (ReqFc = 6 /\ ReqAddr < MAX_REG) => reg_map'[ReqAddr] = ReqVal
          /\ exit_status' = Running
          /\ pc' = "receive" /\ cont # 0
      ]_vars

C14_Witness ==
    /\ pc = "receive"
    /\ rc = -1
    /\ query = <<5, 6, 0, 31, 4, 210>>
    /\ tx = << <<5, 6, 0, 31, 4, 210>> >>
    /\ log = <<"Failed to send reply to the client">>
    /\ reg_map[31] = 1234
    /\ exit_status = Running

C14_WitnessException ==
    /\ pc = "receive"
    /\ rc = -1
    /\ tx = << <<5, 135, 1>> >>
    /\ log = <<"Invalid operation", "Failed to send exception reply to the client">>

\* C15: while main is still initialising the port it has received nothing,
\* sent nothing and accessed no register; a start-up step that fails (it
\* logs) makes main return a non-zero value right there, and nothing
\* happens after main has returned.
StartupPcs == {"new_rtu", "connect", "set_rts", "set_rts_delay"}

C15_StartupFailureIsFatal ==
    [][ /\ pc \in StartupPcs =>
              /\ query = << >> /\ rc = 0
              /\ tx = << >>
              /\ touched = {}
              /\ \A a \in RegIndex : reg_map[a] = 0
        /\ (pc \in StartupPcs /\ log' # log) =>
              /\ pc' = "exit"
              /\ exit_status' # Running
              /\ exit_status'[1] # 0
              /\ UNCHANGED <<query, rc, tx, touched, reg_map, mb_mapping>>
        /\ pc = "exit" => UNCHANGED vars
      ]_vars

C15_Witness ==
    /\ pc = "exit"
    /\ log = <<"Setting RTS delay failed">>
    /\ exit_status = <<-1>>
    /\ query = << >>
    /\ tx = << >>
    /\ touched = {}
    /\ reg_map = [i \in RegIndex |-> 0]

\* C16: every element of reg_map[] and of the response table
\* tab_registers[] that the switch reads or writes has an index in
\* 0 .. MAX_REG-1, whatever the frame's address, function code and value.
C16_AccessInBounds ==
    \A t \in touched :
        /\ t[1] \in {"reg_map", "tab_registers"}
        /\ t[2] \in RegIndex

C16_Witness ==
    /\ pc = "reply"
    /\ query = <<5, 4, 0, 31, 4, 210>>
    /\ touched = {<<"reg_map", 31>>, <<"tab_registers", 31>>}
    /\ reg_map[31] = 1234

C16_WitnessRefused ==
    /\ pc = "reply"
    /\ query = <<5, 6, 1, 30, 4, 210>>
    /\ touched = {}
    /\ exception_code = 2

\* C17: when a frame has been received, slave_addr is its first byte,
\* operation the byte after it, reg_addr is (hi << 8) | lo of the next two
\* bytes and reg_val is (hi << 8) | lo of the two bytes after those; both
\* lie in 0 .. 65535, and receiving and decoding leave reg_map unchanged.
C17_Decode ==
    [][ (pc = "receive" /\ pc' = "filter") =>
          /\ Len(query') = 6
          /\ \A i \in 1 .. 6 : query'[i] \in 0 .. 255
          /\ req'.slave_addr = query'[1]
          /\ req'.operation = query'[2]
          /\ req'.reg_addr = query'[3] * 256 + query'[4]
          /\ req'.reg_val = query'[5] * 256 + query'[6]
          /\ req'.reg_addr \in 0 .. 65535
          /\ req'.reg_val \in 0 .. 65535
          /\ reg_map' = reg_map
      ]_vars

C17_Witness ==
    /\ pc = "filter"
    /\ query = <<9, 16, 1, 30, 4, 210>>
    /\ req = [slave_addr |-> 9, operation |-> 16, reg_addr |-> 286, reg_val |-> 1234]
    /\ reg_map[30] = 1

\* C18: the exception code is never Slave or Server Failure (0x04) and no
\* frame handed to the transport is an exception reply carrying it; for a
\* read or write whose address passed the bounds check the switch leaves
\* the exception code 0.
C18_NoServerFailure ==
    /\ exception_code # MODBUS_EXCEPTION_SLAVE_OR_SERVER_FAILURE
    /\ \A i \in 1 .. Len(tx) :
          IsExceptionReply(tx[i]) =>
              tx[i][3] # MODBUS_EXCEPTION_SLAVE_OR_SERVER_FAILURE
    /\ (pc = "reply" /\ ReqFc \in {3, 4, 6} /\ ReqAddr < MAX_REG) =>
          exception_code = 0

C18_Witness ==
    /\ pc = "receive"
    /\ query = <<5, 3, 0, 30, 0, 1>>
    /\ tx = << <<5, 3, 2, 4, 210>> >>
    /\ exception_code = 0
    /\ reg_map[30] = 1234

\* C19: what an addressed request gets is a function of its frame and of
\* reg_map as it is when the frame arrives, whatever came before:
\* exception_code is cleared when the frame is decoded, the switch leaves
\* the exception code and the register map, and the reply step hands to
\* the transport the frame, that this function gives.  In particular a
\* valid write or Read Holding Registers request that comes right after a
\* rejected request (exception reply) or an ignored frame gets a normal
\* reply.
Outcome(q, map) ==
    LET d == Switch(Decode(q), map, modbus_mapping_new(MAX_REG, 0))
        b == BuildReply(q, Len(q) + CHECKSUM_LENGTH, d.exception_code, d.mb_mapping)
    IN  [rsp |-> b.rsp, reg_map |-> d.reg_map, exception_code |-> d.exception_code]

AfterRejectedOrIgnored ==
    /\ prev.query # << >>
    /\ \/ prev.tx = << >>
       \/ IsExceptionReply(prev.tx[1])

ValidRequest ==
    \/ ReqFc = 6 /\ ReqAddr < MAX_REG
    \/ ReqFc = 3 /\ ValidRead

C19_WitnessAfterIgnored ==
    /\ pc = "receive"
    /\ prev.query = <<9, 3, 0, 32, 0, 1>>
    /\ prev.tx = << >>
    /\ query = <<5, 3, 0, 30, 0, 1>>
    /\ tx = << <<5, 3, 2, 0, 1>> >>

\* C20: once main is in its loop the loop condition is true at every
\* iteration (cont is never 0), the return of status 0 behind the loop is
\* never reached, and no frame, no failed receive and no failed send ends
\* the program: every step taken in the loop stays in the loop with the
\* program running, except the return of -1 taken when modbus_mapping_new
\* fails.
LoopPcs == {"receive", "filter", "alloc", "dispatch", "reply"}

C20_NeverLeavesLoop ==
    [][ (pc \in LoopPcs) =>
          /\ cont # 0
          /\ exit_status' # <<0>>
          /\ (pc = "alloc" /\ mb_mapping' = NULL) =>
                (pc' = "exit" /\ exit_status' = <<-1>>)
          /\ ~(pc = "alloc" /\ mb_mapping' = NULL) =>
                (pc' \in LoopPcs /\ exit_status' = Running)
      ]_vars

C20_Witness ==
    /\ pc = "receive"
    /\ rc = -1
    /\ query = <<5, 16, 1, 30, 4, 210>>
    /\ log = <<"modbus_receive() failed">>
    /\ tx = << >>
    /\ exit_status = Running

C20_WitnessSendFailure ==
    /\ pc = "receive"
    /\ rc = -1
    /\ query = <<5, 3, 0, 30, 0, 1>>
    /\ log = <<"Failed to send reply to the client">>
    /\ exit_status = Running

\* C21: when the request of a master tool has failed (the device gave a
\* wrong response or none) and the tool has returned, standard output
\* holds exactly one error line and the exit status is not 0.
ErrorLines ==
    { "Unable to read holding registers", "Unable to read input registers",
      "Unable to write single register", "Unable to write multiple registers",
      "ERROR changing sensor configuration, check parameters",
      "ERROR performing Modbus request" }

RequestFailed == prog \in Tools /\ answer \in {"wrong", "silent"}

C21_FailedRequestReported ==
    (RequestFailed /\ pc = "exit") =>
        /\ Cardinality({ i \in 1 .. Len(log) : log[i] \in ErrorLines }) = 1
        /\ exit_status # <<0>>

\* C22: mbm sends a request only as the first one or, in a read mode with
\* poll period > 0, after a request that succeeded; a request that failed
\* is the last one and ends the program; with poll period 0 and in the
\* write modes the one request ends the program whatever its result.
Polling == mode \in {"r", "R"} /\ poll_period > 0

C22_NoRetry ==
    [][ (prog = "mbm" /\ tx' # tx) =>
          /\ Len(tx') = Len(tx) + 1
          /\ tx # << >> => (Polling /\ answer = "ok")
          /\ answer' # "ok" => pc' = "exit"
          /\ ~Polling => (pc' = "exit" /\ Len(tx') = 1)
      ]_vars

\* C23 as stated: thconf sends its request only if both baudrates are in
\* {1200, 2400, 4800, 9600, 19200} and both slave addresses are in 1..247;
\* otherwise it returns a non-zero status without opening the port or
\* sending a frame.
ThconfBaudrates == {1200, 2400, 4800, 9600, 19200}

ThconfValid ==
    /\ argv.argc >= 5
    /\ argv.baudrate \in ThconfBaudrates
    /\ argv.new_baudrate \in ThconfBaudrates
    /\ argv.slave_addr \in 1 .. 247
    /\ argv.new_slave_addr \in 1 .. 247

C23_AsStated ==
    (prog = "thconf" /\ ~ThconfValid) =>
        /\ pc \in {"parse", "exit"}
        /\ tx = << >>
        /\ pc = "exit" => (exit_status # Running /\ exit_status # <<0>>)

\* C23: given all four parameters, thconf sends its request only if both
\* baudrates are in {1200, 2400, 4800, 9600, 19200} and both slave
\* addresses are in 1..247; otherwise it prints one line and returns -1
\* without opening the port or sending a frame.  (With fewer parameters it
\* prints its usage and returns 0, again without opening the port.)
C23_ValidatedBeforeSend ==
    prog = "thconf" =>
        /\ tx # << >> => ThconfValid
        /\ pc \notin {"parse", "exit"} => ThconfValid
        /\ (argv.argc >= 5 /\ ~ThconfValid /\ pc = "exit") =>
              /\ exit_status = <<-1>>
              /\ Len(log) = 1
              /\ tx = << >>
        /\ (argv.argc < 5 /\ pc = "exit") =>
              /\ exit_status = <<0>>
              /\ tx = << >>
        /\ (ThconfValid /\ pc = "exit" /\ answer # NoAnswer) =>
              tx = << thconf_raw_req >>

C23_Witness ==
    /\ prog = "thconf"
    /\ pc = "exit"
    /\ argv = [argc |-> 5, baudrate |-> 9600, slave_addr |-> 1,
               new_baudrate |-> 19200, new_slave_addr |-> 247]
    /\ tx = << <<1, 6, 0, 0, 0, 1, 2, 247, 7>> >>
    /\ answer = "ok"

C23_WitnessRejected ==
    /\ prog = "thconf"
    /\ pc = "exit"
    /\ argv = [argc |-> 5, baudrate |-> 9600, slave_addr |-> 1,
               new_baudrate |-> 19200, new_slave_addr |-> 248]
    /\ log = <<"Invalid new slave address">>
    /\ exit_status = <<-1>>
    /\ tx = << >>

\* C24: a response mapping is live only between modbus_mapping_new and the
\* reply step of the same iteration.  It is allocated only in the step
\* after the address filter has passed the frame, and only when none is
\* live; the reply step frees it whether the reply is normal or an
\* exception and whether the send succeeds or fails; none is live while
\* main waits in modbus_receive, and a failed receive or a frame for
\* another address allocates none.
Live == mb_mapping # NULL

C24_MappingLifetime ==
    [][ /\ Live => pc \in {"dispatch", "reply"}
        /\ Live' => pc' \in {"dispatch", "reply"}
        /\ (~Live /\ Live') =>
              /\ pc = "alloc"
              /\ query # << >>
              /\ query[1] = own_addr
              /\ mb_mapping' = modbus_mapping_new(MAX_REG, 0)
        /\ pc = "reply" => (Live /\ ~Live' /\ pc' = "receive")
        /\ pc = "receive" => ~Live'
        /\ (pc = "filter" /\ query[1] # own_addr) => (~Live' /\ pc' = "receive")
      ]_vars

C24_Witness ==
    /\ pc = "receive"
    /\ ~Live
    /\ query = <<5, 4, 0, 30, 0, 1>>
    /\ rc = -1
    /\ tx = << <<5, 132, 2>> >>
    /\ log = <<"Failed to send reply to the client">>

C24_WitnessLive ==
    /\ pc = "reply"
    /\ Live
    /\ query = <<5, 3, 0, 30, 0, 1>>
    /\ mb_mapping.tab_registers[30] = 1234

\* C25: when own_addr is outside 0 .. 255 no frame passes the address
\* filter: for the whole run nothing is handed to the transport, no
\* response mapping is allocated and reg_map stays as it was initialised.
C25_OwnAddressOutOfByteRange ==
    own_addr \notin 0 .. 255 =>
        /\ tx = << >>
        /\ reg_map = [i \in RegIndex |-> 0]
        /\ pc \notin {"alloc", "dispatch", "reply"}
        /\ mb_mapping = NULL
        /\ exception_code = 0

C25_Witness ==
    /\ own_addr = 261
    /\ pc = "receive"
    /\ query = <<5, 6, 0, 30, 4, 210>>
    /\ rc = 8
    /\ tx = << >>
    /\ reg_map[30] = 0

C25_WitnessNegative ==
    /\ own_addr = -3
    /\ pc = "receive"
    /\ query = <<9, 3, 0, 31, 0, 1>>
    /\ rc = 8
    /\ tx = << >>

====
